---- MODULE Spec2Model ----
(***************************************************************************)
(* Model of the agent request proxy handler of firecrawl-webapp            *)
(* (src/src/app/api/agent/route.ts, POST).  One request is followed from   *)
(* its arrival through the three awaits of the handler (session lookup,    *)
(* body parsing, upstream agent call) to the response it returns.          *)
(*                                                                         *)
(* JavaScript values are tagged records [t |-> type, v |-> payload].       *)
(* Strings that the handler inspects (prompt, urls) are sequences of       *)
(* one-character strings, so that length and trim() are computed.          *)
(***************************************************************************)
EXTENDS Integers, Sequences, FiniteSets, TLC

VARIABLES
    pc,         \* position of the handler: idle, session, json, agent, done
    request,    \* the incoming request: the session the lookup yields, the body
    startTime,  \* const startTime = Date.now()            (route.ts:10)
    now,        \* the wall clock, in ms
    agentArgs,  \* the agentArgs object built by the handler (route.ts:39-53)
    calls,      \* the arguments of every firecrawl.agent call made so far
    upstream,   \* how the awaited firecrawl.agent call settled
    response,   \* the NextResponse returned by the handler
    env,        \* process.env.DEMO_USERS
    bootEnv,    \* process.env.DEMO_USERS as it was at process start
    attempt,    \* the last call of authorize: its credentials and its result
    store,      \* the Credential Store of the server: username -> password
    sessionUser, \* session?.user?.name in the browser, or none
    users,      \* the settings page's list of usernames
    message,    \* the settings page's message
    reply,      \* the last request to /api/users and its status
    pending,    \* the requests to /api/users sent and not yet taken up
    writers,    \* the requests taken up, each with the store as it was read
    history,     \* the requests completed, in order, each with its status
    inflight,   \* the agent requests under way together, each with its own locals
    clock,       \* the wall clock all of them read, in ms
    loading, \* dashboard: a tool request is under way (useState, part_001:56)
    apiResult, \* dashboard: the state "result", null or the last answer (part_001:57)
    progress, \* dashboard: value of the progress bar (part_001:60)
    loadingMessage, \* dashboard: text shown while loading (part_001:61)
    runs, \* dashboard: the calls of handleSubmit, in the order they started
    timer, \* dashboard: the timer the progress effect holds: "interval", "timeout" or "none"
    resultOf, \* dashboard: the call of handleSubmit that set the result last (0: none)
    display, \* dashboard: what the result card rendered last
    sessionStatus, \* settings page: status of useSession (settings/page.tsx:23)
    issued \* settings page: the requests to /api/users its last handler or effect sent

agentVars == <<pc, request, startTime, now, agentArgs, calls, upstream, response>>
authVars == <<env, bootEnv, attempt>>
storeVars == <<store, sessionUser, users, message, reply>>
editVars == <<pending, writers, history>>
concVars == <<inflight, clock>>
dashVars == <<loading, apiResult, progress, loadingMessage, runs, timer, resultOf, display>>
pageVars == <<sessionStatus, issued>>
vars == <<agentVars, authVars, storeVars, editVars, concVars, dashVars, pageVars>>

\* what the steps of one component leave alone
exceptAgent == <<authVars, storeVars, editVars, concVars, dashVars, pageVars>>
exceptAuth == <<agentVars, storeVars, editVars, concVars, dashVars, pageVars>>
exceptStore == <<agentVars, authVars, editVars, concVars, dashVars, pageVars>>
exceptEdits == <<agentVars, authVars, concVars, dashVars, pageVars>>
exceptConc == <<agentVars, authVars, storeVars, editVars, dashVars, pageVars>>
exceptDash == <<agentVars, authVars, storeVars, editVars, concVars, pageVars>>
exceptPage == <<agentVars, authVars, editVars, concVars, dashVars>>

----------------------------------------------------------------------------
(* Bounds of the model.                                                    *)

\* largest number of agent requests that are under way together
MaxRequests == 2
\* largest number of requests to /api/users that are under way together
MaxEdits == 3
\* largest number of comma-separated pairs in DEMO_USERS
MaxPairs == 2
\* longest prompt sent, in characters
MaxPromptLen == 11
\* longest urls array sent
MaxUrls == 3
\* largest number of fields present on an upstream result object
MaxResultFields == 2

\* if (prompt.length < 10)                                  (route.ts:29)
MinPromptLength == 10

\* Time that passes during one await, in ms.  No sum of these has a
\* remainder of 50 modulo 100, where the rounding of toFixed(1) depends on
\* the binary representation of the quotient.
Delays == {0, 60}

----------------------------------------------------------------------------
(* JavaScript values.                                                      *)

Undef == [t |-> "undefined", v |-> <<>>]
Str(s) == [t |-> "string", v |-> s]
Num == [t |-> "number", v |-> <<>>]        \* a non-zero number
Bool(b) == [t |-> "boolean", v |-> b]
List(l) == [t |-> "array", v |-> l]
Obj(o) == [t |-> "object", v |-> o]

\* ToBoolean of the values above (used by !x, if (x) and ||).
Truthy(x) ==
    CASE x.t = "undefined" -> FALSE
      [] x.t = "string" -> Len(x.v) > 0
      [] x.t = "number" -> TRUE
      [] x.t = "boolean" -> x.v
      [] x.t = "array" -> TRUE
      [] x.t = "object" -> TRUE

\* a || b
JsOr(a, b) == IF Truthy(a) THEN a ELSE b

\* obj.f for an object given as a record: undefined when f is not a property.
Get(o, f) == IF f \in DOMAIN o THEN o[f] ELSE Undef

\* n copies of the character c
Rep(c, n) == [i \in 1..n |-> c]

WhiteSpace == {" "}

RECURSIVE TrimStart(_)
TrimStart(s) ==
    IF s # <<>> /\ Head(s) \in WhiteSpace THEN TrimStart(Tail(s)) ELSE s

RECURSIVE TrimEnd(_)
TrimEnd(s) ==
    IF s # <<>> /\ s[Len(s)] \in WhiteSpace
    THEN TrimEnd(SubSeq(s, 1, Len(s) - 1))
    ELSE s

\* String.prototype.trim
Trim(s) == TrimEnd(TrimStart(s))

----------------------------------------------------------------------------
(* What a client can send.                                                 *)

NoSession == "none"
ValidSession == "valid"
Sessions == {NoSession, ValidSession}

Prompts == {Undef, Num} \cup {Str(Rep("p", n)) : n \in 0..MaxPromptLen}

\* "", whitespace only, and two urls, one of them with leading whitespace;
\* Num is an entry that is not a string.
UrlStrings == {<<>>, <<" ", " ">>, <<"a">>, <<" ", "b">>}
UrlEntries == {Str(s) : s \in UrlStrings} \cup {Num}

SeqsUpTo(S, n) == UNION {[1..k -> S] : k \in 0..n}

\* urls absent, a bare value, or an array
UrlInputs == {Undef} \cup UrlEntries \cup {List(l) : l \in SeqsUpTo(UrlEntries, MaxUrls)}

\* The text of the request body: not JSON at all, the JSON null, or an object.
MalformedBody == [kind |-> "malformed", prompt |-> Undef, urls |-> Undef]
NullBody == [kind |-> "null", prompt |-> Undef, urls |-> Undef]
ObjectBody(p, u) == [kind |-> "object", prompt |-> p, urls |-> u]
Bodies == {MalformedBody, NullBody} \cup {ObjectBody(p, u) : p \in Prompts, u \in UrlInputs}

----------------------------------------------------------------------------
(* What the upstream client can answer.                                    *)

\* the fields the handler probes, in the order of route.ts:67
OutputFields == <<"output", "data", "result", "markdown", "content">>
ResultFields == {OutputFields[i] : i \in 1..Len(OutputFields)} \cup {"success", "creditsUsed"}

\* For each field a value of its own and, where there is one, a falsy value.
FieldValue(f, falsy) ==
    CASE f = "output" -> IF falsy THEN Str(<<>>) ELSE Str(<<"O">>)
      [] f = "data" -> IF falsy THEN Str(<<>>) ELSE Str(<<"D">>)
      [] f = "result" -> IF falsy THEN Str(<<>>) ELSE Str(<<"X">>)
      [] f = "markdown" -> IF falsy THEN Str(<<>>) ELSE Str(<<"M">>)
      [] f = "content" -> IF falsy THEN Str(<<>>) ELSE Str(<<"C">>)
      [] f = "success" -> IF falsy THEN Bool(FALSE) ELSE Bool(TRUE)
      [] f = "creditsUsed" -> Num

\* The objects firecrawl.agent can resolve to: at most MaxResultFields of
\* the fields, each with one of its values.
Results ==
    UNION {{[f \in D |-> FieldValue(f, falsy[f])] : falsy \in [D -> BOOLEAN]} :
           D \in {E \in SUBSET ResultFields : Cardinality(E) <= MaxResultFields}}

\* Values that can be thrown: an Error with a message, an object that is
\* not an Error (its own enumerable properties in insertion order), a
\* primitive string, undefined and null.
ErrorOf(m) == [t |-> "Error", message |-> m, props |-> <<>>]
ObjectOf(ps) == [t |-> "object", message |-> "", props |-> ps]
StringOf(m) == [t |-> "string", message |-> m, props |-> <<>>]
UndefinedThrown == [t |-> "undefined", message |-> "", props |-> <<>>]
NullThrown == [t |-> "null", message |-> "", props |-> <<>>]

\* The ways firecrawl.agent can reject.
Failures ==
    { ErrorOf("Request timeout"),
      ErrorOf(""),
      ObjectOf(<<[k |-> "code", v |-> "402"], [k |-> "error", v |-> "Payment required"]>>),
      ObjectOf(<<>>),
      StringOf("timeout"),
      UndefinedThrown,
      NullThrown }

----------------------------------------------------------------------------
(* The handler's computations.                                             *)

\* ((Date.now() - startTime) / 1000).toFixed(1), then `${duration}s`:
\* seconds rounded to one decimal, e.g. 60 ms -> "0.1s".
duration(ms) ==
    LET tenths == (ms + 50) \div 100
    IN  ToString(tenths \div 10) \o "." \o ToString(tenths % 10) \o "s"

\* NextResponse.json(body): JSON.stringify leaves out the properties whose
\* value is undefined.
Serialize(o) == [k \in {f \in DOMAIN o : o[f].t # "undefined"} |-> o[k]]

NextResponse(body, status) == [status |-> status, body |-> Serialize(body)]

NoResponse == [status |-> 0, body |-> [k \in {} |-> Undef]]

\* The three ways the synchronous part between two awaits can end.
Respond(r) == [kind |-> "respond", response |-> r, error |-> UndefinedThrown, args |-> Undef]
Throw(e) == [kind |-> "throw", response |-> NoResponse, error |-> e, args |-> Undef]
Call(a) == [kind |-> "call", response |-> NoResponse, error |-> UndefinedThrown, args |-> a]

\* Array.isArray(urls) ? urls : [urls]
urlList(urls) == IF urls.t = "array" THEN urls.v ELSE <<urls>>

\* u.trim() of an entry that is not a string is a TypeError.
TrimThrows(l) == \E i \in 1..Len(l) : l[i].t # "string"

\* mutant: the filter tests the entry, not the trimmed entry
filteredUrls_NoTrim(l) == SelectSeq(l, LAMBDA u : Truthy(u))

\* urlList.filter((u) => u.trim()): the entries kept are the entries themselves.
filteredUrls(l) == SelectSeq(l, LAMBDA u : Truthy(Str(Trim(u.v))))

\* mutant: urls is set whenever urls was given
makeAgentArgs_AlwaysUrls(prompt, urls) ==
    IF Truthy(urls)
    THEN Obj([prompt |-> prompt, urls |-> List(filteredUrls(urlList(urls)))])
    ELSE Obj([prompt |-> prompt])

\* agentArgs = { prompt }, with urls only when an entry is left.
makeAgentArgs(prompt, urls) ==
    IF Truthy(urls) /\ Len(filteredUrls(urlList(urls))) > 0
    THEN Obj([prompt |-> prompt, urls |-> List(filteredUrls(urlList(urls)))])
    ELSE Obj([prompt |-> prompt])

\* mutant: the comparison is off by one
TooShort_OffByOne(prompt) == prompt.t = "string" /\ Len(prompt.v) < MinPromptLength - 1

\* prompt.length < 10; the length of a value that is not a string is
\* undefined, and undefined < 10 is false.
TooShort(prompt) == prompt.t = "string" /\ Len(prompt.v) < MinPromptLength

\* From the body to the upstream call: request.json(), the destructuring,
\* the two checks of prompt and the construction of agentArgs.
validate(body) ==
    IF body.kind = "malformed"
    THEN Throw(ErrorOf("Unexpected end of JSON input"))
    ELSE IF body.kind = "null"
    THEN Throw(ErrorOf("Cannot destructure property 'prompt' of 'body' as it is null."))
    ELSE IF ~Truthy(body.prompt)
    THEN Respond(NextResponse(
             [error |-> Str("A prompt describing what you want to find is required")], 400))
    ELSE IF TooShort(body.prompt)
    THEN Respond(NextResponse([error |-> Str("Prompt must be at least 10 characters")], 400))
    ELSE IF Truthy(body.urls) /\ TrimThrows(urlList(body.urls))
    THEN Throw(ErrorOf("u.trim is not a function"))
    ELSE Call(makeAgentArgs(body.prompt, body.urls))

\* mutant: data is probed before output
firstTruthy_DataFirst(result) ==
    JsOr(Get(result, "data"),
    JsOr(Get(result, "output"),
    JsOr(Get(result, "result"),
    JsOr(Get(result, "markdown"), Get(result, "content")))))

\* result.output || result.data || result.result || result.markdown || result.content
firstTruthy(result) ==
    JsOr(Get(result, "output"),
    JsOr(Get(result, "data"),
    JsOr(Get(result, "result"),
    JsOr(Get(result, "markdown"), Get(result, "content")))))

\* mutant: the whole result is used without looking at result.success
output_AlwaysWhole(result) ==
    IF ~Truthy(firstTruthy(result)) THEN Obj(result) ELSE firstTruthy(result)

\* The output of the success envelope: the whole result when nothing
\* truthy was found and result.success is defined.
output(result) ==
    IF ~Truthy(firstTruthy(result)) /\ Get(result, "success").t # "undefined"
    THEN Obj(result)
    ELSE firstTruthy(result)

\* mutant: the upstream result is returned as data, as it is
successResponse_Unwrapped(result, ms) ==
    NextResponse([success |-> Bool(TRUE), data |-> Obj(result)], 200)

\* mutant: the success envelope is built without the duration
successResponse_NoDuration(result, ms) ==
    NextResponse(
        [success |-> Bool(TRUE),
         data |-> Obj(Serialize(
             [output |-> output(result),
              raw |-> Obj(result),
              creditsUsed |-> Get(result, "creditsUsed")]))],
        200)

\* The response to a resolved upstream call.
successResponse(result, ms) ==
    NextResponse(
        [success |-> Bool(TRUE),
         data |-> Obj(Serialize(
             [output |-> output(result),
              raw |-> Obj(result),
              duration |-> Str(duration(ms)),
              creditsUsed |-> Get(result, "creditsUsed")]))],
        200)

\* JSON.stringify of an object whose properties are strings.
RECURSIVE Members(_)
Members(ps) ==
    IF ps = <<>> THEN ""
    ELSE "\"" \o Head(ps).k \o "\":\"" \o Head(ps).v \o "\""
         \o (IF Tail(ps) = <<>> THEN "" ELSE ",") \o Members(Tail(ps))

JSONstringify(error) == "{" \o Members(error.props) \o "}"

\* mutant: every failure gets the default message
errorMessage_Default(error) == "Agent request failed"

\* mutant: an object that is not an Error gets the default message
errorMessage_ErrorOnly(error) ==
    IF error.t = "Error" THEN error.message ELSE "Agent request failed"

\* The message of the failure envelope.
errorMessage(error) ==
    IF error.t = "Error" THEN error.message
    ELSE IF error.t = "object" THEN JSONstringify(error)
    ELSE "Agent request failed"

\* mutant: the failure is answered as a bad gateway
failureResponse_BadGateway(error, ms) ==
    NextResponse(
        [success |-> Bool(FALSE),
         error |-> Str(errorMessage(error)),
         duration |-> Str(duration(ms))],
        502)

\* mutant: the failure is answered without the duration
failureResponse_NoDuration(error, ms) ==
    NextResponse([success |-> Bool(FALSE), error |-> Str(errorMessage(error))], 500)

\* mutant: the failure is answered as a success without data
failureResponse_Success(error, ms) ==
    NextResponse(
        [success |-> Bool(TRUE),
         error |-> Str(errorMessage(error)),
         duration |-> Str(duration(ms))],
        500)

\* The catch block.
failureResponse(error, ms) ==
    NextResponse(
        [success |-> Bool(FALSE),
         error |-> Str(errorMessage(error)),
         duration |-> Str(duration(ms))],
        500)

----------------------------------------------------------------------------
(* The Credential Store and the Session Authenticator (src/lib/auth.ts).   *)

admin == <<"a", "d", "m", "i", "n">>
admin123 == <<"a", "d", "m", "i", "n", "1", "2", "3">>

\* The text between two separators: empty, whitespace only, a name, a
\* name in another case with whitespace around it.
Tokens == {<<>>, <<" ">>, <<"a">>, <<" ", "A", " ">>}

\* A pair with a second colon: "a::a", "a: :a", "a:a:a", "a: A :a".
TwoColons == {<<<<"a">>, t, <<"a">>>> : t \in Tokens}

\* What lies between two commas, as pair.split(":") gives it: one part
\* (no colon), two parts, or three.
Segments == [1..1 -> Tokens] \cup [1..2 -> Tokens] \cup TwoColons

\* A value of DEMO_USERS, as split(",") gives it; split never gives an
\* empty array, and the empty string gives one pair with one empty part.
Configs == UNION {[1..n -> Segments] : n \in 1..MaxPairs}
EmptyString == << << <<>> >> >>

\* The variable is not set.
Unset == <<>>
Environments == {Unset} \cup Configs

\* "admin:admin123"
Fallback == << <<admin, admin123>> >>

\* process.env.DEMO_USERS || "admin:admin123"
demoUsers(e) == IF e = Unset \/ e = EmptyString THEN Fallback ELSE e

\* new Map(), and users.set(key, value)
NewMap == [k \in {} |-> <<>>]
MapSet(map, key, value) ==
    [k \in DOMAIN map \cup {key} |-> IF k = key THEN value ELSE map[k]]

\* mutant: the pair is stored as written, untrimmed
forEachPair_NoTrim(map, pair) ==
    IF Len(pair) >= 2 /\ pair[1] # <<>> /\ pair[2] # <<>>
    THEN MapSet(map, pair[1], pair[2])
    ELSE map

\* The body of the forEach: const [username, password] = pair.split(":");
\* if (username && password) users.set(username.trim(), password.trim()).
forEachPair(map, pair) ==
    IF Len(pair) >= 2 /\ pair[1] # <<>> /\ pair[2] # <<>>
    THEN MapSet(map, Trim(pair[1]), Trim(pair[2]))
    ELSE map

RECURSIVE forEach(_, _)
forEach(pairs, map) ==
    IF pairs = <<>> THEN map
    ELSE forEach(Tail(pairs), forEachPair(map, Head(pairs)))

\* mutant: the fallback pair is always there
getDemoUsers_WithFallback(e) ==
    forEach(IF e = Unset THEN Fallback ELSE Fallback \o e, NewMap)

\* getDemoUsers(), reading the variable as it is now.
getDemoUsers(e) == forEach(demoUsers(e), NewMap)

\* What a caller can supply as username and as password.
SuppliedNames == {Undef, Str(<<>>), Str(<<"a">>), Str(<<"A">>), Str(<<" ", "A", " ">>), Str(admin)}
SuppliedPasswords == {Undef, Str(<<>>), Str(<<"a">>), Str(<<"A">>), Str(admin123)}
Credentials == [username : SuppliedNames, password : SuppliedPasswords]

\* What authorize returns: null, or the user.
Null == [kind |-> "null", id |-> <<>>, name |-> <<>>, email |-> <<>>]
User(username) ==
    [kind |-> "user", id |-> username, name |-> username,
     email |-> username \o <<"@firecrawl.local">>]

\* users.get(key)
MapGet(map, key) == IF key \in DOMAIN map THEN Str(map[key]) ELSE Undef

\* mutant: the comparison ignores case
checkPassword_IgnoreCase(map, credentials) ==
    LET Fold(str) == [i \in 1..Len(str) |-> IF str[i] = "A" THEN "a" ELSE str[i]]
        stored == [k \in {Fold(x) : x \in DOMAIN map} |->
                      Fold(map[CHOOSE x \in DOMAIN map : Fold(x) = k])]
        storedPassword == MapGet(stored, Fold(credentials.username.v))
    IN  IF Truthy(storedPassword) /\ storedPassword.v = Fold(credentials.password.v)
        THEN User(credentials.username.v)
        ELSE Null

\* const storedPassword = users.get(credentials.username);
\* if (storedPassword && storedPassword === credentials.password) ...
checkPassword(map, credentials) ==
    LET storedPassword == MapGet(map, credentials.username.v)
    IN  IF Truthy(storedPassword) /\ storedPassword = credentials.password
        THEN User(credentials.username.v)
        ELSE Null

\* mutant: a missing field and a wrong password are told apart
missing_Reported(credentials) ==
    IF ~Truthy(credentials.username) \/ ~Truthy(credentials.password)
    THEN [kind |-> "missing", id |-> <<>>, name |-> <<>>, email |-> <<>>]
    ELSE Null

\* if (!credentials?.username || !credentials?.password) return null;
\* Null here stands for "go on".
missing(credentials) == Null

\* authorize(credentials), with DEMO_USERS being e when it is called.
authorize(e, credentials) ==
    IF ~Truthy(credentials.username) \/ ~Truthy(credentials.password)
    THEN missing(credentials)
    ELSE checkPassword(getDemoUsers(e), credentials)

NoAttempt == [made |-> FALSE, credentials |-> [username |-> Undef, password |-> Undef],
              result |-> Null]

\* The authenticator is not part of the run.
AuthAtRest == env = Unset /\ bootEnv = Unset /\ attempt = NoAttempt

----------------------------------------------------------------------------
(* The runtime operations of the Credential Store behind /api/users, and   *)
(* the settings page that calls them (src/app/settings/page.tsx).          *)

\* Who sends a request: nobody signed in, the admin, another user.
NoCaller == <<>>
Callers == {NoCaller, admin, <<"a">>}

StoreNames == {admin, <<"a">>, <<"b">>}
StorePasswords == {<<"a">>, <<"b">>}

\* What the server answers, and the store it leaves.
Ok(st) == [status |-> 200, error |-> "", store |-> st]
Fail(status, error, st) == [status |-> status, error |-> error, store |-> st]

\* mutant: add overwrites an entry that exists
add_Overwrite(st, caller, username, password) ==
    IF caller = NoCaller THEN Fail(401, "Unauthorized", st)
    ELSE IF caller # admin THEN Fail(403, "Forbidden", st)
    ELSE Ok(MapSet(st, username, password))

\* POST /api/users: add(username, password), for the admin only.
add(st, caller, username, password) ==
    IF caller = NoCaller THEN Fail(401, "Unauthorized", st)
    ELSE IF caller # admin THEN Fail(403, "Forbidden", st)
    ELSE IF username \in DOMAIN st THEN Fail(409, "User already exists", st)
    ELSE Ok(MapSet(st, username, password))

\* mutant: admin is removed like any other user
remove_Unprotected(st, caller, username) ==
    IF caller = NoCaller THEN Fail(401, "Unauthorized", st)
    ELSE IF caller # admin THEN Fail(403, "Forbidden", st)
    ELSE IF username \notin DOMAIN st THEN Fail(404, "User not found", st)
    ELSE Ok([k \in DOMAIN st \ {username} |-> st[k]])

\* DELETE /api/users?username=...: remove(username), refused for admin
\* whoever asks, and for the admin only.
remove(st, caller, username) ==
    IF username = admin THEN Fail(403, "Cannot delete admin user", st)
    ELSE IF caller = NoCaller THEN Fail(401, "Unauthorized", st)
    ELSE IF caller # admin THEN Fail(403, "Forbidden", st)
    ELSE IF username \notin DOMAIN st THEN Fail(404, "User not found", st)
    ELSE Ok([k \in DOMAIN st \ {username} |-> st[k]])

\* GET /api/users: the usernames, for the admin only.
list(st, caller) ==
    IF caller = NoCaller THEN Fail(401, "Unauthorized", st)
    ELSE IF caller # admin THEN Fail(403, "Forbidden", st)
    ELSE Ok(st)

\* response.ok
ResponseOk(r) == r.status >= 200 /\ r.status <= 299

\* The message of the page: none, or a type and a text.
NoMessage == [type |-> "none", text |-> ""]
Message(type, text) == [type |-> type, text |-> text]

\* data.error || fallback
ErrorText(r, fallback) == IF r.error # "" THEN r.error ELSE fallback

\* handleAddUser: the message after the answer to POST.
addUserMessage(r) ==
    IF ResponseOk(r)
    THEN Message("success", "User created successfully")
    ELSE Message("error", ErrorText(r, "Failed to create user"))

\* handleDeleteUser: the message after the answer to DELETE.
deleteUserMessage(r) ==
    IF ResponseOk(r)
    THEN Message("success", "User deleted")
    ELSE Message("error", ErrorText(r, "Failed to delete user"))

\* fetchUsers: the list after GET; it is kept when the answer is not ok.
fetchUsers(st, caller, shown) ==
    IF ResponseOk(list(st, caller)) THEN DOMAIN list(st, caller).store ELSE shown

\* The rows with a Delete button: user.username !== "admin".
Deletable(shown) == shown \ {admin}

\* mutant: the page is rendered for every session that is signed in
PageShown_AnyUser == sessionStatus = "authenticated"

\* The page's gates: past "loading" and "unauthenticated", its content is
\* rendered for the session of admin only (session?.user?.name !== "admin").
PageShown == sessionStatus = "authenticated" /\ sessionUser = admin

\* A request the page sent: its method, and the session as the page saw it.
Issued(op) == [op |-> op, status |-> sessionStatus, name |-> sessionUser]

\* useSession has not answered yet, and the page has sent nothing.
PageAtRest == sessionStatus = "loading" /\ issued = {}

NoReply == [via |-> "none", op |-> "none", caller |-> NoCaller, username |-> <<>>,
            password |-> <<>>, status |-> 0]
Reply(via, op, caller, username, password, r) ==
    [via |-> via, op |-> op, caller |-> caller, username |-> username,
     password |-> password, status |-> r.status]

\* The store and the settings page are not part of the run.
StoreAtRest ==
    /\ store = NewMap
    /\ sessionUser = NoCaller
    /\ users = {}
    /\ message = NoMessage
    /\ reply = NoReply

\* No request to /api/users is under way.
EditsAtRest == pending = {} /\ writers = {} /\ history = <<>>

\* No agent requests are followed side by side.
ConcAtRest == inflight = <<>> /\ clock = 0

----------------------------------------------------------------------------
(* The dashboard page, in its latest version (src/unnamed/part_001).       *)

\* The urls of the agent request, from the text of the textarea given by
\* its lines (what split("\n") yields; the empty text is one empty line):
\* agentUrls ? agentUrls.split("\n").filter((u) => u.trim()) : undefined
agentUrlsField(lines) ==
    IF lines = << <<>> >>
    THEN Undef
    ELSE List(SelectSeq([i \in 1..Len(lines) |-> Str(lines[i])],
                        LAMBDA u : Truthy(Str(Trim(u.v)))))

ToolTypes == {"agent", "scrape", "crawl", "map"}

\* getLoadingMessages(tool)
getLoadingMessages(tool) ==
    CASE tool = "agent" ->
             <<"Agent startet...", "Durchsuche das Web...", "Analysiere Inhalte...",
               "Extrahiere Informationen...", "Verarbeite Ergebnisse...">>
      [] tool = "scrape" ->
             <<"Lade Seite...", "Extrahiere Inhalte...", "Formatiere Daten...">>
      [] tool = "crawl" ->
             <<"Starte Crawl...", "Folge Links...", "Sammle Seiten...",
               "Verarbeite Inhalte...">>
      [] tool = "map" ->
             <<"Analysiere Domain...", "Sammle URLs...", "Erstelle Sitemap...">>
      [] OTHER -> <<"Verarbeite...">>

\* largest number of calls of handleSubmit followed
MaxSubmits == 2

\* if (prev >= 90) return prev;                             (part_001:87)
ProgressCap == 90
\* return prev + Math.random() * 10;                        (part_001:88)
RandomScale == 10
\* setProgress(100);                                        (part_001:92)
ProgressDone == 100

\* Math.random() * 10 lies in [0, 10): the values followed are its
\* smallest one and the two largest whole ones.
Increments == {0, RandomScale - 2, RandomScale - 1}

\* mutant: the updater has no cap
setProgressTick_NoCap(prev, inc) == prev + inc

\* the updater of the interval: (prev) => prev >= 90 ? prev : prev + inc
setProgressTick(prev, inc) == IF prev >= ProgressCap THEN prev ELSE prev + inc

\* useState<ApiResult | null>(null)
NoResult == [t |-> "null", v |-> <<>>]

\* What fetch can resolve to, given by the text of the body: three JSON
\* objects (a success, a failure as the routes answer it, the answer to a
\* request without session) and a text that is not JSON.
NotJson == [t |-> "text", v |-> "<html>"]
DashBodies ==
    { Obj([success |-> Bool(TRUE), data |-> Obj([output |-> Str("O")])]),
      Obj([success |-> Bool(FALSE), error |-> Str("Agent request failed")]),
      Obj([error |-> Str("Unauthorized")]),
      NotJson }

\* What fetch can reject with: the TypeError of a network failure, and a
\* value that is not an Error.
FetchFailures == {ErrorOf("Failed to fetch"), StringOf("aborted")}

\* mutant: the catch block leaves the result alone
caught_Nothing(error) == NoResult

\* catch (error): { success: false,
\*                  error: error instanceof Error ? error.message : "Request failed" }
caught(error) ==
    Obj([success |-> Bool(FALSE),
         error |-> Str(IF error.t = "Error" THEN error.message ELSE "Request failed")])

\* One call of handleSubmit: its tool, where it stands (fetch, json,
\* settled), its local messageIndex, whether its messageInterval is set,
\* and the body fetch resolved to.  A call that has settled has no locals.
Run(tool) ==
    [tool |-> tool, pc |-> "fetch", messageIndex |-> 0, messageInterval |-> TRUE,
     body |-> NoResult]

\* mutant: the buttons stay enabled while loading
disabled_IgnoreLoading(isLoading, fieldEmpty) == fieldEmpty

\* disabled={loading || !agentPrompt}, and likewise !scrapeUrl, !crawlUrl, !mapUrl
disabled(isLoading, fieldEmpty) == isLoading \/ fieldEmpty

\* The effect on [loading], run after a render in which loading changed:
\* the cleanup of the previous run clears its timer, then
\* setProgress(0) and the interval, or setProgress(100) and the timeout.
progressEffect(isLoading) ==
    IF isLoading
    THEN [progress |-> 0, timer |-> "interval"]
    ELSE [progress |-> ProgressDone, timer |-> "timeout"]

\* A render that sets loading to next: the effect runs only when the
\* dependency changed.
Render(next) ==
    /\ loading' = next
    /\ IF next = loading
       THEN UNCHANGED <<progress, timer>>
       ELSE /\ progress' = progressEffect(next).progress
            /\ timer' = progressEffect(next).timer

\* what the result card shows: nothing yet, or a text
NotRendered == [shown |-> FALSE, text |-> ""]
Rendered(text) == [shown |-> TRUE, text |-> text]

\* Nothing of the dashboard is followed.
DashAtRest ==
    /\ loading = FALSE
    /\ apiResult = NoResult
    /\ progress = 0
    /\ loadingMessage = ""
    /\ runs = <<>>
    /\ timer = "none"
    /\ resultOf = 0
    /\ display = NotRendered

----------------------------------------------------------------------------
(* The handler, one action per await.                                      *)

NotSettled == [kind |-> "pending", result |-> <<>>, error |-> UndefinedThrown]
Resolved(r) == [kind |-> "resolved", result |-> r, error |-> UndefinedThrown]
Rejected(e) == [kind |-> "rejected", result |-> <<>>, error |-> e]

NoRequest == [session |-> NoSession, body |-> NullBody]

Init ==
    /\ pc = "idle"
    /\ request = NoRequest
    /\ startTime = 0
    /\ now = 0
    /\ agentArgs = Undef
    /\ calls = <<>>
    /\ upstream = NotSettled
    /\ response = NoResponse
    /\ AuthAtRest
    /\ StoreAtRest
    /\ EditsAtRest
    /\ ConcAtRest
    /\ DashAtRest
    /\ PageAtRest

\* A request arrives: startTime is taken and the session lookup starts.
POST ==
    /\ pc = "idle"
    /\ \E s \in Sessions, b \in Bodies : request' = [session |-> s, body |-> b]
    /\ startTime' = now
    /\ pc' = "session"
    /\ UNCHANGED <<now, agentArgs, calls, upstream, response>>
    /\ UNCHANGED exceptAgent

\* mutant: the handler forgets the gate
Unauthenticated_Never(session) == FALSE

\* if (!session)
Unauthenticated(session) == session = NoSession

\* mutant: the body is read without a look at the session
SessionChecked_Skipped ==
    /\ pc = "session"
    /\ pc' = "json"
    /\ UNCHANGED <<request, startTime, now, agentArgs, calls, upstream, response>>
    /\ UNCHANGED exceptAgent

\* await getServerSession(authOptions) yields the session, or none.  The
\* time the lookup takes is added by the next await: the 401 response
\* shows no duration, so only the sum of the two is ever observed.
SessionChecked ==
    /\ pc = "session"
    /\ IF Unauthenticated(request.session)
       THEN /\ response' = NextResponse([error |-> Str("Unauthorized")], 401)
            /\ pc' = "done"
       ELSE /\ pc' = "json"
            /\ UNCHANGED response
    /\ UNCHANGED <<request, startTime, now, agentArgs, calls, upstream>>
    /\ UNCHANGED exceptAgent

\* await request.json() settles; the handler runs up to firecrawl.agent.
BodyRead ==
    /\ pc = "json"
    /\ \E d \in Delays : now' = now + d
    /\ LET v == validate(request.body)
       IN  CASE v.kind = "call" ->
                    /\ agentArgs' = v.args
                    /\ calls' = Append(calls, v.args)
                    /\ pc' = "agent"
                    /\ UNCHANGED response
             [] v.kind = "respond" ->
                    /\ response' = v.response
                    /\ pc' = "done"
                    /\ UNCHANGED <<agentArgs, calls>>
             [] v.kind = "throw" ->
                    /\ response' = failureResponse(v.error, now' - startTime)
                    /\ pc' = "done"
                    /\ UNCHANGED <<agentArgs, calls>>
    /\ UNCHANGED <<request, startTime, upstream>>
    /\ UNCHANGED exceptAgent

\* await firecrawl.agent(agentArgs) resolves to agentResult.
AgentResolved ==
    /\ pc = "agent"
    /\ \E d \in Delays : now' = now + d
    /\ \E r \in Results :
           /\ upstream' = Resolved(r)
           /\ response' = successResponse(r, now' - startTime)
    /\ pc' = "done"
    /\ UNCHANGED <<request, startTime, agentArgs, calls>>
    /\ UNCHANGED exceptAgent

\* mutant: a rejected call is made once more
AgentRejected_Retry ==
    /\ pc = "agent"
    /\ Len(calls) < 2
    /\ calls' = Append(calls, agentArgs)
    /\ UNCHANGED <<pc, request, startTime, now, agentArgs, upstream, response>>
    /\ UNCHANGED exceptAgent

\* await firecrawl.agent(agentArgs) rejects: the catch block answers.
AgentRejected ==
    /\ pc = "agent"
    /\ \E d \in Delays : now' = now + d
    /\ \E e \in Failures :
           /\ upstream' = Rejected(e)
           /\ response' = failureResponse(e, now' - startTime)
    /\ pc' = "done"
    /\ UNCHANGED <<request, startTime, agentArgs, calls>>
    /\ UNCHANGED exceptAgent

Next ==
    \/ POST
    \/ SessionChecked
    \/ BodyRead
    \/ AgentResolved
    \/ AgentRejected

Spec == Init /\ [][Next]_vars

----------------------------------------------------------------------------
(* The agent call with the timeout of the Upstream Client Adapter.  The    *)
(* handler sets no timer of its own: it awaits firecrawl.agent, and the    *)
(* adapter ends a call that is not complete after its timeout.             *)

\* the adapter's timeout, in seconds
AgentTimeout == 300

\* What the adapter rejects with when the timeout is reached.
TimeoutError == ErrorOf("Request timeout")

\* The call is not complete when the timeout is reached: the adapter
\* rejects, and the catch block of the handler answers.
AgentTimedOut ==
    /\ pc = "agent"
    /\ now' = now + AgentTimeout * 1000
    /\ upstream' = Rejected(TimeoutError)
    /\ response' = failureResponse(TimeoutError, now' - startTime)
    /\ pc' = "done"
    /\ UNCHANGED <<request, startTime, agentArgs, calls>>
    /\ UNCHANGED exceptAgent

\* The requests followed to their end: every kind of body and prompt,
\* without urls or with one url.
LiveBodies ==
    {MalformedBody, NullBody}
        \cup {ObjectBody(p, u) : p \in Prompts, u \in {Undef, Str(<<"a">>)}}

\* A request was received: startTime is taken, the session lookup runs.
InitLive ==
    /\ pc = "session"
    /\ request \in [session : Sessions, body : LiveBodies]
    /\ startTime = 0
    /\ now = 0
    /\ agentArgs = Undef
    /\ calls = <<>>
    /\ upstream = NotSettled
    /\ response = NoResponse
    /\ AuthAtRest
    /\ StoreAtRest
    /\ EditsAtRest
    /\ ConcAtRest
    /\ DashAtRest
    /\ PageAtRest

NextLive ==
    \/ SessionChecked
    \/ BodyRead
    \/ AgentResolved
    \/ AgentRejected
    \/ AgentTimedOut

\* Every await of the handler settles: the session lookup and the reading
\* of the body are local, and the agent call ends by the adapter's timeout
\* at the latest.
SpecLive ==
    /\ InitLive
    /\ [][NextLive]_vars
    /\ WF_vars(SessionChecked)
    /\ WF_vars(BodyRead)
    /\ WF_vars(AgentResolved \/ AgentRejected \/ AgentTimedOut)

----------------------------------------------------------------------------
(* The authenticator: sign-in attempts against the configured users.       *)

\* The agent handler is not part of the run.
AgentAtRest ==
    /\ pc = "idle"
    /\ request = NoRequest
    /\ startTime = 0
    /\ now = 0
    /\ agentArgs = Undef
    /\ calls = <<>>
    /\ upstream = NotSettled
    /\ response = NoResponse

\* The process starts with some value of DEMO_USERS, or none.
InitAuth ==
    /\ env \in Environments
    /\ bootEnv = env
    /\ attempt = NoAttempt
    /\ AgentAtRest
    /\ StoreAtRest
    /\ EditsAtRest
    /\ ConcAtRest
    /\ DashAtRest
    /\ PageAtRest

\* A sign-in: next-auth calls authorize with the submitted credentials.
\* authorize keeps nothing between calls and reads only DEMO_USERS and its
\* argument, so a run follows one sign-in: a second one in the same process
\* is the first one of the run that starts with the same DEMO_USERS.
Authorize ==
    /\ ~attempt.made
    /\ \E c \in Credentials :
           attempt' = [made |-> TRUE, credentials |-> c, result |-> authorize(env, c)]
    /\ UNCHANGED <<env, bootEnv>>
    /\ UNCHANGED exceptAuth

NextAuth == Authorize

SpecAuth == InitAuth /\ [][NextAuth]_vars

\* The values of DEMO_USERS with a single pair, for the runs in which the
\* variable is changed while the process lives.
SinglePairs == {Unset} \cup [1..1 -> Segments]

InitReconfig ==
    /\ env \in SinglePairs
    /\ bootEnv = env
    /\ attempt = NoAttempt
    /\ AgentAtRest
    /\ StoreAtRest
    /\ EditsAtRest
    /\ ConcAtRest
    /\ DashAtRest
    /\ PageAtRest

\* process.env.DEMO_USERS is assigned in the running process.
SetEnv ==
    /\ \E e \in SinglePairs : e # env /\ env' = e
    /\ UNCHANGED <<bootEnv, attempt>>
    /\ UNCHANGED exceptAuth

NextReconfig ==
    \/ Authorize
    \/ SetEnv

SpecReconfig == InitReconfig /\ [][NextReconfig]_vars

----------------------------------------------------------------------------
(* The Credential Store at run time: requests to /api/users, sent by the   *)
(* settings page or by any other client.                                   *)

\* The values of DEMO_USERS the store is loaded from: not set, one user
\* who is not admin, admin and another user.
StoreConfigs ==
    { Unset,
      << <<(<<"a">>), (<<"a">>)>> >>,
      << <<admin, admin123>>, <<(<<"a">>), (<<"a">>)>> >> }

\* The process starts: the store holds the configured users; somebody, or
\* nobody, is signed in in the browser; the page shows no list yet.
InitStore ==
    /\ env \in StoreConfigs
    /\ bootEnv = env
    /\ attempt = NoAttempt
    /\ store = getDemoUsers(env)
    /\ sessionUser \in Callers
    /\ users = {}
    /\ message = NoMessage
    /\ reply = NoReply
    /\ AgentAtRest
    /\ EditsAtRest
    /\ ConcAtRest
    /\ DashAtRest
    /\ PageAtRest

\* useSession answers: the session of the cookie, or none.
SessionResolved ==
    /\ sessionStatus = "loading"
    /\ sessionStatus' = IF sessionUser = NoCaller THEN "unauthenticated" ELSE "authenticated"
    /\ UNCHANGED <<issued, storeVars>>
    /\ UNCHANGED exceptPage

\* useEffect on mount: fetchUsers().  The effect is declared before the
\* gates of the page and runs whatever the session is; the server answers
\* the session of the cookie.
Mounted ==
    /\ users' = fetchUsers(store, sessionUser, users)
    /\ issued' = {Issued("GET")}
    /\ UNCHANGED <<store, sessionUser, message, reply, sessionStatus>>
    /\ UNCHANGED exceptPage

\* The form is submitted with what was typed.  A fetch that rejects has
\* not reached the server.
handleAddUser ==
    /\ PageShown
    /\ \E newUsername \in StoreNames \cup {<<>>}, newPassword \in StorePasswords \cup {<<>>},
          reached \in BOOLEAN :
           IF newUsername = <<>> \/ newPassword = <<>>
           THEN UNCHANGED <<store, users, message, reply, issued>>
           ELSE IF ~reached
           THEN /\ message' = Message("error", "Failed to create user")
                /\ issued' = {Issued("POST")}
                /\ UNCHANGED <<store, users, reply>>
           ELSE LET r == add(store, sessionUser, newUsername, newPassword)
                IN  /\ store' = r.store
                    /\ issued' =
                           {Issued("POST")} \cup (IF ResponseOk(r) THEN {Issued("GET")} ELSE {})
                    /\ reply' = Reply("page", "POST", sessionUser, newUsername, newPassword, r)
                    /\ message' = addUserMessage(r)
                    /\ users' = IF ResponseOk(r)
                                THEN fetchUsers(r.store, sessionUser, users)
                                ELSE users
    /\ UNCHANGED <<sessionUser, sessionStatus>>
    /\ UNCHANGED exceptPage

\* The Delete button of a row is clicked; confirm() is answered.
handleDeleteUser ==
    /\ PageShown
    /\ \E username \in Deletable(users), confirmed \in BOOLEAN, reached \in BOOLEAN :
           IF ~confirmed
           THEN UNCHANGED <<store, users, message, reply, issued>>
           ELSE IF ~reached
           THEN /\ message' = Message("error", "Failed to delete user")
                /\ issued' = {Issued("DELETE")}
                /\ UNCHANGED <<store, users, reply>>
           ELSE LET r == remove(store, sessionUser, username)
                IN  /\ store' = r.store
                    /\ issued' =
                           {Issued("DELETE")} \cup (IF ResponseOk(r) THEN {Issued("GET")} ELSE {})
                    /\ reply' = Reply("page", "DELETE", sessionUser, username, <<>>, r)
                    /\ message' = deleteUserMessage(r)
                    /\ users' = IF ResponseOk(r)
                                THEN fetchUsers(r.store, sessionUser, users)
                                ELSE users
    /\ UNCHANGED <<sessionUser, sessionStatus>>
    /\ UNCHANGED exceptPage

\* POST /api/users sent by any client, signed in or not.
POSTUsers ==
    /\ \E caller \in Callers, username \in StoreNames, password \in StorePasswords :
           LET r == add(store, caller, username, password)
           IN  /\ store' = r.store
               /\ reply' = Reply("api", "POST", caller, username, password, r)
    /\ UNCHANGED <<sessionUser, users, message>>
    /\ UNCHANGED exceptStore

\* DELETE /api/users?username=... sent by any client, signed in or not.
DELETEUsers ==
    /\ \E caller \in Callers, username \in StoreNames :
           LET r == remove(store, caller, username)
           IN  /\ store' = r.store
               /\ reply' = Reply("api", "DELETE", caller, username, <<>>, r)
    /\ UNCHANGED <<sessionUser, users, message>>
    /\ UNCHANGED exceptStore

NextStore ==
    \/ SessionResolved
    \/ Mounted
    \/ handleAddUser
    \/ handleDeleteUser
    \/ POSTUsers
    \/ DELETEUsers

SpecStore == InitStore /\ [][NextStore]_vars

----------------------------------------------------------------------------
(* Sign-ins while the Credential Store is edited: the requests to          *)
(* /api/users change the store, authorize reads DEMO_USERS.                *)

NextSignIn ==
    \/ POSTUsers
    \/ DELETEUsers
    \/ Authorize

SpecSignIn == InitStore /\ [][NextSignIn]_vars

----------------------------------------------------------------------------
(* Concurrent edits of the Credential Store: several requests of the admin *)
(* are under way together.  The server takes a request up, reads the       *)
(* store, and completes the request by writing the store; it takes up a    *)
(* request only when no other is between its read and its write.           *)

\* add(username, password) or remove(username), sent by the admin
Edits ==
    {[op |-> "add", username |-> u, password |-> p] : u \in StoreNames, p \in StorePasswords}
        \cup {[op |-> "remove", username |-> u, password |-> <<>>] : u \in StoreNames}

\* the operation of the store a request stands for
apply(st, e) ==
    IF e.op = "add"
    THEN add(st, admin, e.username, e.password)
    ELSE remove(st, admin, e.username)

\* mutant: a request is taken up while another one is between read and write
CanBegin_NoLock(w) == TRUE

\* single writer at a time
CanBegin(w) == w = {}

InitEdits ==
    /\ env \in StoreConfigs
    /\ bootEnv = env
    /\ attempt = NoAttempt
    /\ store = getDemoUsers(env)
    /\ sessionUser = admin
    /\ users = {}
    /\ message = NoMessage
    /\ reply = NoReply
    /\ pending = {}
    /\ writers = {}
    /\ history = <<>>
    /\ AgentAtRest
    /\ ConcAtRest
    /\ DashAtRest
    /\ PageAtRest

\* A request is sent; it is numbered in the order of sending.
SendEdit ==
    /\ Cardinality(pending) + Cardinality(writers) + Len(history) < MaxEdits
    /\ \E e \in Edits :
           pending' = pending \cup
               {[id |-> Cardinality(pending) + Cardinality(writers) + Len(history) + 1,
                 edit |-> e]}
    /\ UNCHANGED <<writers, history>>
    /\ UNCHANGED storeVars
    /\ UNCHANGED exceptEdits

\* The server takes a request up and reads the store.
BeginEdit ==
    /\ CanBegin(writers)
    /\ \E q \in pending :
           /\ pending' = pending \ {q}
           /\ writers' = writers \cup {[id |-> q.id, edit |-> q.edit, read |-> store]}
    /\ UNCHANGED history
    /\ UNCHANGED storeVars
    /\ UNCHANGED exceptEdits

\* The server completes a request: the store it read, with the operation
\* applied, is written, and the answer is sent.
CommitEdit ==
    /\ \E w \in writers :
           LET r == apply(w.read, w.edit)
           IN  /\ store' = r.store
               /\ history' = Append(history, [id |-> w.id, edit |-> w.edit, status |-> r.status])
               /\ writers' = writers \ {w}
    /\ UNCHANGED pending
    /\ UNCHANGED <<sessionUser, users, message, reply>>
    /\ UNCHANGED exceptEdits

NextEdits ==
    \/ SendEdit
    \/ BeginEdit
    \/ CommitEdit

SpecEdits == InitEdits /\ [][NextEdits]_vars

----------------------------------------------------------------------------
(* Several agent requests under way together.  Each call of POST has its   *)
(* own locals (startTime, session, body, agentArgs, agentResult); the      *)
(* calls share the clock and nothing else.                                 *)

\* The bodies sent side by side: null, a short prompt, a valid prompt, a
\* valid prompt with an url entry that is not a string.
ConcBodies ==
    { NullBody,
      ObjectBody(Str(Rep("p", MinPromptLength - 1)), Undef),
      ObjectBody(Str(Rep("p", MinPromptLength)), Undef),
      ObjectBody(Str(Rep("p", MinPromptLength)), Num) }

\* What the upstream answers to one of them.
ConcResults == {[output |-> Str(<<"O">>)], [success |-> Bool(TRUE)]}
ConcFailures == {ErrorOf("Request timeout")}

\* The locals of a call of POST that has not started.
NoLocals ==
    [pc |-> "idle", request |-> NoRequest, startTime |-> 0, endTime |-> 0,
     upstream |-> NotSettled, response |-> NoResponse]

\* mutant: startTime is one variable of the module, written by every call
startOf_Shared(f, i) ==
    LET started == {j \in DOMAIN f : f[j].pc # "idle"}
    IN  f[CHOOSE j \in started : \A k \in started : f[k].startTime <= f[j].startTime].startTime

\* const startTime: the startTime of this call
startOf(f, i) == f[i].startTime

InitConc ==
    /\ inflight = [i \in 1..MaxRequests |-> NoLocals]
    /\ clock = 0
    /\ AgentAtRest
    /\ AuthAtRest
    /\ StoreAtRest
    /\ EditsAtRest
    /\ DashAtRest
    /\ PageAtRest

\* Request i arrives, some time after the last step.
ConcPOST ==
    /\ \E i \in DOMAIN inflight :
           /\ inflight[i].pc = "idle"
           /\ \E d \in Delays, se \in Sessions, b \in ConcBodies :
                  /\ clock' = clock + d
                  /\ inflight' = [inflight EXCEPT ![i] =
                         [@ EXCEPT !.pc = "session",
                                   !.request = [session |-> se, body |-> b],
                                   !.startTime = clock']]
    /\ UNCHANGED exceptConc

\* The session lookup of request i settles.
ConcSessionChecked ==
    /\ \E i \in DOMAIN inflight :
           /\ inflight[i].pc = "session"
           /\ inflight' = [inflight EXCEPT ![i] =
                  IF Unauthenticated(@.request.session)
                  THEN [@ EXCEPT !.pc = "done", !.endTime = clock,
                                 !.response = NextResponse([error |-> Str("Unauthorized")], 401)]
                  ELSE [@ EXCEPT !.pc = "json"]]
    /\ UNCHANGED clock
    /\ UNCHANGED exceptConc

\* The body of request i is read; the handler runs up to firecrawl.agent.
ConcBodyRead ==
    /\ \E i \in DOMAIN inflight :
           /\ inflight[i].pc = "json"
           /\ LET v == validate(inflight[i].request.body)
              IN  inflight' = [inflight EXCEPT ![i] =
                      CASE v.kind = "call" -> [@ EXCEPT !.pc = "agent"]
                        [] v.kind = "respond" ->
                               [@ EXCEPT !.pc = "done", !.endTime = clock,
                                         !.response = v.response]
                        [] v.kind = "throw" ->
                               [@ EXCEPT !.pc = "done", !.endTime = clock,
                                         !.response =
                                             failureResponse(v.error, clock - startOf(inflight, i))]]
    /\ UNCHANGED clock
    /\ UNCHANGED exceptConc

\* The agent call of request i settles, some time after the last step.
ConcAgentSettled ==
    /\ \E i \in DOMAIN inflight :
           /\ inflight[i].pc = "agent"
           /\ \E d \in Delays : clock' = clock + d
           /\ \/ \E r \in ConcResults :
                     inflight' = [inflight EXCEPT ![i] =
                         [@ EXCEPT !.pc = "done", !.endTime = clock',
                                   !.upstream = Resolved(r),
                                   !.response =
                                       successResponse(r, clock' - startOf(inflight, i))]]
              \/ \E e \in ConcFailures :
                     inflight' = [inflight EXCEPT ![i] =
                         [@ EXCEPT !.pc = "done", !.endTime = clock',
                                   !.upstream = Rejected(e),
                                   !.response =
                                       failureResponse(e, clock' - startOf(inflight, i))]]
    /\ UNCHANGED exceptConc

NextConc ==
    \/ ConcPOST
    \/ ConcSessionChecked
    \/ ConcBodyRead
    \/ ConcAgentSettled

SpecConc == InitConc /\ [][NextConc]_vars

----------------------------------------------------------------------------
(* The dashboard page: a click, the timers and the settling of the fetch.   *)

\* The dashboard after its first render: every useState at its initial
\* value, and the effect has run once with loading = false.
InitDash ==
    /\ loading = FALSE
    /\ apiResult = NoResult
    /\ progress = progressEffect(FALSE).progress
    /\ loadingMessage = ""
    /\ runs = <<>>
    /\ timer = progressEffect(FALSE).timer
    /\ resultOf = 0
    /\ display = NotRendered
    /\ AgentAtRest
    /\ AuthAtRest
    /\ StoreAtRest
    /\ EditsAtRest
    /\ ConcAtRest
    /\ PageAtRest

\* A click on the button of a tool: handleSubmit up to its first await.
handleSubmit(tool) ==
    /\ Len(runs) < MaxSubmits
    /\ \E fieldEmpty \in BOOLEAN : ~disabled(loading, fieldEmpty)
    /\ Render(TRUE)
    /\ apiResult' = NoResult
    /\ resultOf' = Len(runs) + 1
    /\ loadingMessage' = getLoadingMessages(tool)[1]
    /\ runs' = Append(runs, Run(tool))
    /\ UNCHANGED <<display, exceptDash>>

\* The callback of messageInterval, every 2000 ms.
MessageTick(i) ==
    /\ runs[i].messageInterval
    /\ LET messages == getLoadingMessages(runs[i].tool)
           messageIndex == (runs[i].messageIndex + 1) % Len(messages)
       IN  /\ runs' = [runs EXCEPT ![i].messageIndex = messageIndex]
           /\ loadingMessage' = messages[messageIndex + 1]
    /\ UNCHANGED <<loading, apiResult, progress, timer, resultOf, display, exceptDash>>

\* The callback of the effect's interval, every 500 ms.
ProgressTick ==
    /\ timer = "interval"
    /\ \E inc \in Increments : progress' = setProgressTick(progress, inc)
    /\ UNCHANGED <<loading, apiResult, loadingMessage, runs, timer, resultOf, display, exceptDash>>

\* The callback of the effect's timeout, 500 ms after loading ended.
ResetFired ==
    /\ timer = "timeout"
    /\ progress' = 0
    /\ timer' = "none"
    /\ UNCHANGED <<loading, apiResult, loadingMessage, runs, resultOf, display, exceptDash>>

\* setResult(value) and the finally block of call i.
Settle(i, value) ==
    /\ apiResult' = value
    /\ resultOf' = i
    /\ runs' = [runs EXCEPT ![i].pc = "settled", ![i].messageInterval = FALSE,
                            ![i].messageIndex = 0, ![i].body = NoResult]
    /\ Render(FALSE)
    /\ loadingMessage' = ""
    /\ UNCHANGED <<display, exceptDash>>

\* await fetch(...) resolves with a response, whatever its status.
FetchResolved(i) ==
    /\ runs[i].pc = "fetch"
    /\ \E b \in DashBodies : runs' = [runs EXCEPT ![i].pc = "json", ![i].body = b]
    /\ UNCHANGED <<loading, apiResult, progress, loadingMessage, timer, resultOf, display, exceptDash>>

\* await fetch(...) rejects.
FetchRejected(i) ==
    /\ runs[i].pc = "fetch"
    /\ \E e \in FetchFailures : Settle(i, caught(e))

\* await response.json() settles: the parsed body, or a SyntaxError.
JsonSettled(i) ==
    /\ runs[i].pc = "json"
    /\ IF runs[i].body = NotJson
       THEN Settle(i, caught(ErrorOf("Unexpected token '<'")))
       ELSE Settle(i, runs[i].body)

NextDash ==
    \/ \E tool \in ToolTypes : handleSubmit(tool)
    \/ \E i \in 1..Len(runs) : MessageTick(i)
    \/ ProgressTick
    \/ ResetFired
    \/ \E i \in 1..Len(runs) : FetchResolved(i)
    \/ \E i \in 1..Len(runs) : FetchRejected(i)
    \/ \E i \in 1..Len(runs) : JsonSettled(i)

SpecDash == InitDash /\ [][NextDash]_vars

\* The timeout of the effect fires once it is due.
SpecDashFair == SpecDash /\ WF_vars(ResetFired)

----------------------------------------------------------------------------
(* The result card of the dashboard: getDisplayContent.                    *)

\* largest number of entries of result.data.links
MaxLinks == 2
\* largest number of pages of result.data.data
MaxPages == 2

\* x.f for any value x: undefined unless x is an object with the property
Prop(x, f) == IF x.t = "object" THEN Get(x.v, f) ELSE Undef

\* array.join(sep) of an array of strings
RECURSIVE Join(_, _)
Join(l, sep) ==
    IF l = <<>> THEN ""
    ELSE IF Len(l) = 1 THEN l[1]
    ELSE l[1] \o sep \o Join(Tail(l), sep)

\* The keys of the objects followed, in the order the server wrote them.
KeyOrder == <<"success", "output", "markdown", "data", "links", "result", "url", "title", "error">>

\* JSON.stringify(value, null, 2) at the given indentation; properties
\* whose value is undefined are left out.
RECURSIVE Stringify(_, _)
Stringify(x, indent) ==
    LET inner == indent \o "  "
    IN  CASE x.t = "string" -> "\"" \o x.v \o "\""
          [] x.t = "number" -> "1"
          [] x.t = "boolean" -> IF x.v THEN "true" ELSE "false"
          [] x.t = "null" -> "null"
          [] x.t = "array" ->
                 IF x.v = <<>> THEN "[]"
                 ELSE "[\n" \o
                      Join([i \in 1..Len(x.v) |-> inner \o Stringify(x.v[i], inner)], ",\n")
                      \o "\n" \o indent \o "]"
          [] x.t = "object" ->
                 LET keys == SelectSeq(KeyOrder,
                                 LAMBDA k : k \in DOMAIN x.v /\ x.v[k].t # "undefined")
                 IN  IF keys = <<>> THEN "{}"
                     ELSE "{\n" \o
                          Join([i \in 1..Len(keys) |->
                                   inner \o "\"" \o keys[i] \o "\": "
                                         \o Stringify(x.v[keys[i]], inner)], ",\n")
                          \o "\n" \o indent \o "}"

\* JSON.stringify(value)
RECURSIVE StringifyCompact(_)
StringifyCompact(x) ==
    CASE x.t = "string" -> "\"" \o x.v \o "\""
      [] x.t = "number" -> "1"
      [] x.t = "boolean" -> IF x.v THEN "true" ELSE "false"
      [] x.t = "null" -> "null"
      [] x.t = "array" ->
             "[" \o Join([i \in 1..Len(x.v) |-> StringifyCompact(x.v[i])], ",") \o "]"
      [] x.t = "object" ->
             LET keys == SelectSeq(KeyOrder,
                             LAMBDA k : k \in DOMAIN x.v /\ x.v[k].t # "undefined")
             IN  "{" \o Join([i \in 1..Len(keys) |->
                                 "\"" \o keys[i] \o "\":" \o StringifyCompact(x.v[keys[i]])],
                             ",") \o "}"

\* `${x}` and String(x)
ToStr(x) ==
    CASE x.t = "string" -> x.v
      [] x.t = "object" -> "[object Object]"
      [] x.t = "number" -> "1"
      [] x.t = "boolean" -> IF x.v THEN "true" ELSE "false"
      [] OTHER -> x.t

\* `## Page ${i + 1}\n\n${page.markdown || "No content"}`
pageBlock(page, i) ==
    "## Page " \o ToString(i) \o "\n\n" \o JsOr(Prop(page, "markdown"), Str("No content")).v

\* typeof link === 'string' ? `- ${link}` : `- ${link.url || JSON.stringify(link)}`
linkLineByUrl(link) ==
    IF link.t = "string"
    THEN "- " \o link.v
    ELSE "- " \o (IF Truthy(Prop(link, "url"))
                  THEN ToStr(Prop(link, "url"))
                  ELSE StringifyCompact(link))

\* (link) => `- ${link}`
linkLine(link) == "- " \o ToStr(link)

\* the three backquotes that open and close a code block in markdown
Fence == "<fence>"

\* getDisplayContent(), as a function of the state "result".  The second
\* test of links (part_001:263) is reached only when links is not an
\* array, and then fails as well.
getDisplayContent(res) ==
    LET data == Prop(res, "data")
    IN  IF ~Truthy(data) THEN ""
        ELSE IF Truthy(Prop(data, "output")) THEN ToStr(Prop(data, "output"))
        ELSE IF Truthy(Prop(data, "markdown")) THEN ToStr(Prop(data, "markdown"))
        ELSE IF Prop(data, "data").t = "array"
        THEN Join([i \in 1..Len(Prop(data, "data").v) |->
                       pageBlock(Prop(data, "data").v[i], i)], "\n\n---\n\n")
        ELSE IF Prop(data, "links").t = "array"
        THEN "## Gefundene URLs\n\n" \o
             Join([i \in 1..Len(Prop(data, "links").v) |->
                       linkLine(Prop(data, "links").v[i])], "\n")
        ELSE IF Truthy(Prop(data, "links")) /\ Prop(data, "links").t = "array"
        THEN "## Gefundene URLs\n\n" \o
             Join([i \in 1..Len(Prop(data, "links").v) |->
                       linkLineByUrl(Prop(data, "links").v[i])], "\n")
        ELSE IF data.t = "object"
        THEN Fence \o "json\n" \o Stringify(data, "") \o "\n" \o Fence
        ELSE ToStr(data)

\* The values of result.data followed: for each of output, markdown, data
\* and links, absent or one of a few values; or a string; or nothing.
OutputValues == {Undef, Str(""), Str("O")}
MarkdownValues == {Undef, Str(""), Str("M")}
Pages == {Obj([markdown |-> Str("P")]), Obj([markdown |-> Str("")]), Obj([title |-> Str("t")])}
PageValues == {Undef} \cup {List(l) : l \in SeqsUpTo(Pages, MaxPages)}
Links == {Str("u"), Obj([url |-> Str("v")]), Obj([title |-> Str("t")])}
LinkValues == {Undef, Str("l")} \cup {List(l) : l \in SeqsUpTo(Links, MaxLinks)}
DataValues ==
    {Undef, Str("O")} \cup
    {Obj(Serialize([output |-> o, markdown |-> m, data |-> d, links |-> l])) :
         o \in OutputValues, m \in MarkdownValues, d \in PageValues, l \in LinkValues}
RenderResults ==
    {NoResult, Obj([success |-> Bool(FALSE), error |-> Str("Unauthorized")])} \cup
    {Obj(Serialize([success |-> Bool(TRUE), data |-> d])) : d \in DataValues}

InitRender ==
    /\ apiResult \in RenderResults
    /\ display = NotRendered
    /\ loading = FALSE
    /\ progress = 0
    /\ loadingMessage = ""
    /\ runs = <<>>
    /\ timer = "none"
    /\ resultOf = 0
    /\ AgentAtRest
    /\ AuthAtRest
    /\ StoreAtRest
    /\ EditsAtRest
    /\ ConcAtRest
    /\ PageAtRest

\* <ReactMarkdown>{getDisplayContent()}</ReactMarkdown>
RenderResult ==
    /\ display = NotRendered
    /\ display' = Rendered(getDisplayContent(apiResult))
    /\ UNCHANGED <<loading, apiResult, progress, loadingMessage, runs, timer, resultOf, exceptDash>>

NextRender == RenderResult

SpecRender == InitRender /\ [][NextRender]_vars

----------------------------------------------------------------------------
(* Properties.                                                             *)

Done == pc = "done"
Has(f) == f \in DOMAIN response.body
PromptLength == Len(request.body.prompt.v)
IsStringPrompt == request.body.kind = "object" /\ request.body.prompt.t = "string"

\* C1: when the session lookup yields no session, the response is 401 and
\* firecrawl.agent is never called, whatever the body.
C1_NoSessionIs401 ==
    (pc # "idle" /\ request.session = NoSession)
        => /\ calls = <<>>
           /\ pc \in {"session", "done"}
           /\ Done => response.status = 401

\* an unauthenticated request, whose body would otherwise be dispatched, answered
C1_Witness ==
    /\ Done
    /\ request.session = NoSession
    /\ IsStringPrompt /\ PromptLength >= MinPromptLength
    /\ response.status = 401

\* urls is absent, a string, or an array of strings
UrlsAreStrings(urls) ==
    \/ urls.t \in {"undefined", "string"}
    \/ urls.t = "array" /\ \A i \in 1..Len(urls.v) : urls.v[i].t = "string"

PromptMissingOrShort ==
    \/ request.body.prompt.t = "undefined"
    \/ request.body.prompt.t = "string" /\ PromptLength < MinPromptLength

IsBlank(str) == \A i \in 1..Len(str) : str[i] = " "

\* the entries of a list that are not blank, in their order
NonBlank(l) == SelectSeq(l, LAMBDA u : ~IsBlank(u.v))

\* the urls an upstream call was given; none when the field is left out
PassedUrls(call) == IF "urls" \in DOMAIN call.v THEN call.v.urls.v ELSE <<>>

HttpsA == Str(<<"a">>)
ExampleList == List(<<HttpsA, Str(<<" ", " ">>), Str(<<>>)>>)

\* C3: the urls passed upstream are the input list (a bare string being a
\* list of one) without its empty and whitespace-only entries, in the same
\* order; "https://a.com" and ["https://a.com", "  ", ""] both give
\* ["https://a.com"].
C3_UrlNormalization ==
    (calls # <<>> /\ request.body.urls.t # "undefined")
        => /\ PassedUrls(calls[1]) =
                NonBlank(IF request.body.urls.t = "array"
                         THEN request.body.urls.v
                         ELSE <<request.body.urls>>)
           /\ request.body.urls \in {HttpsA, ExampleList}
                 => PassedUrls(calls[1]) = <<HttpsA>>

\* the array of the example, dispatched
C3_Witness ==
    /\ calls # <<>>
    /\ request.body.urls = ExampleList
    /\ PassedUrls(calls[1]) = <<HttpsA>>

AgentResult == upstream.result
Data == response.body.data.v
IsResolved == upstream.kind = "resolved"
IsRejected == upstream.kind = "rejected"

Present(i) == OutputFields[i] \in DOMAIN AgentResult
TruthyField(i) == Present(i) /\ Truthy(AgentResult[OutputFields[i]])
NoneTruthy == \A i \in 1..Len(OutputFields) : ~TruthyField(i)

\* data.output of the response is the value x
OutputIs(x) == "output" \in DOMAIN Data /\ Data.output = x

\* C4 as stated: data.output is the value of the first of output, data,
\* result, markdown, content that is present on the upstream result.
C4_Original ==
    IsResolved =>
        \A i \in 1..Len(OutputFields) :
            (Present(i) /\ \A j \in 1..(i - 1) : ~Present(j))
                => OutputIs(AgentResult[OutputFields[i]])

\* C4, amended: data.output is the value of the first of output, data,
\* result, markdown, content whose value is truthy (a field that is present
\* with an empty value is passed over); for {result: "X"} it is "X".
C4_FirstTruthyField ==
    IsResolved =>
        /\ \A i \in 1..Len(OutputFields) :
               (TruthyField(i) /\ \A j \in 1..(i - 1) : ~TruthyField(j))
                   => OutputIs(AgentResult[OutputFields[i]])
        /\ AgentResult = [result |-> Str(<<"X">>)] => OutputIs(Str(<<"X">>))

\* two of the fields have a value and the one that comes first is the output
C4_Witness ==
    /\ Done /\ IsResolved
    /\ \E i, j \in 1..Len(OutputFields) :
           /\ i < j
           /\ TruthyField(i) /\ TruthyField(j)
           /\ OutputIs(AgentResult[OutputFields[i]])

\* the output of the response is the whole upstream result
WholeObject == OutputIs(Obj(AgentResult))

\* C5 as stated: when none of the five fields is present, data.output is
\* the whole result iff success is defined on it; the whole result is never
\* the output when one of the five fields is present.
C5_Original ==
    IsResolved =>
        /\ (\A i \in 1..Len(OutputFields) : ~Present(i))
               => (WholeObject <=> "success" \in DOMAIN AgentResult)
        /\ (\E i \in 1..Len(OutputFields) : Present(i)) => ~WholeObject

\* C5, amended: when none of the five fields has a truthy value,
\* data.output is the whole result iff success is defined on it; the whole
\* result is never the output when one of the five fields is truthy.
C5_WholeObjectFallback ==
    IsResolved =>
        /\ NoneTruthy => (WholeObject <=> "success" \in DOMAIN AgentResult)
        /\ ~NoneTruthy => ~WholeObject

\* a result with success: false and none of the five fields is its own output
C5_Witness ==
    /\ Done /\ IsResolved
    /\ NoneTruthy
    /\ "success" \in DOMAIN AgentResult /\ AgentResult.success = Bool(FALSE)
    /\ WholeObject

\* C6: a resolved upstream call is answered {success: true, data: {output,
\* raw, duration, creditsUsed}}, raw being the upstream result and
\* creditsUsed its creditsUsed.
C6_SuccessEnvelope ==
    IsResolved =>
        /\ Done
        /\ response.status = 200
        /\ DOMAIN response.body = {"success", "data"}
        /\ response.body.success = Bool(TRUE)
        /\ DOMAIN Data \subseteq {"output", "raw", "duration", "creditsUsed"}
        /\ {"raw", "duration"} \subseteq DOMAIN Data
        /\ Data.raw = Obj(AgentResult)
        /\ Data.duration = Str(duration(now - startTime))
        /\ "creditsUsed" \in DOMAIN Data <=> "creditsUsed" \in DOMAIN AgentResult
        /\ "creditsUsed" \in DOMAIN Data => Data.creditsUsed = AgentResult.creditsUsed

\* a result with creditsUsed and an output, answered
C6_Witness ==
    /\ Done /\ IsResolved
    /\ "creditsUsed" \in DOMAIN AgentResult
    /\ "output" \in DOMAIN Data
    /\ response.status = 200

DefaultMessage == Str("Agent request failed")

\* the thrown value says something: an Error, an object, a non-empty string
CarriesInformation(e) == e.t \in {"Error", "object"} \/ (e.t = "string" /\ e.message # "")

\* C8 as stated: the error of the envelope is the message of an Error, the
\* serialization of an object that is not an Error, and never the default
\* message for a thrown value that carries information.
C8_Original ==
    IsRejected =>
        /\ upstream.error.t = "Error" => response.body.error = Str(upstream.error.message)
        /\ CarriesInformation(upstream.error) => response.body.error # DefaultMessage

\* C8, amended: the error of the envelope is the message of an Error and
\* the JSON serialization of an object that is not an Error; every other
\* thrown value (a string, undefined, null) gets the default message.
C8_ErrorClassification ==
    IsRejected =>
        /\ upstream.error.t = "Error" => response.body.error = Str(upstream.error.message)
        /\ upstream.error = ObjectOf(<<>>) => response.body.error = Str("{}")
        /\ upstream.error =
               ObjectOf(<<[k |-> "code", v |-> "402"], [k |-> "error", v |-> "Payment required"]>>)
               => response.body.error = Str("{\"code\":\"402\",\"error\":\"Payment required\"}")
        /\ upstream.error.t = "object" => response.body.error # DefaultMessage
        /\ upstream.error.t \notin {"Error", "object"} => response.body.error = DefaultMessage

\* an object that is not an Error was thrown and is reported serialized
C8_Witness ==
    /\ Done /\ IsRejected
    /\ upstream.error.t = "object" /\ upstream.error.props # <<>>
    /\ response.body.error = Str("{\"code\":\"402\",\"error\":\"Payment required\"}")

\* the response shows a duration, in the body or in its data
ShowsDuration ==
    \/ Has("duration")
    \/ Has("data") /\ "duration" \in DOMAIN Data

\* C9 as stated: every response includes the duration.
C9_Original == Done => ShowsDuration

\* C9, amended: the responses to a settled upstream call and those of the
\* catch block (status 200 and 500) include the duration; the 401 and 400
\* responses do not.
C9_DurationOn200And500 ==
    Done =>
        /\ ShowsDuration <=> response.status \in {200, 500}
        /\ response.status = 200 => Data.duration = Str(duration(now - startTime))
        /\ response.status = 500 => response.body.duration = Str(duration(now - startTime))

\* a body that cannot be parsed, answered by the catch block with a duration
C9_Witness ==
    /\ Done
    /\ request.body.kind = "malformed"
    /\ response.status = 500
    /\ Has("duration")
    /\ now - startTime > 0

\* success is a boolean of the body
HasBooleanSuccess == Has("success") /\ response.body.success.t = "boolean"

\* C10 as stated: every body carries a boolean success; success = true
\* goes with data and no error, success = false with error and no data.
C10_Original ==
    Done =>
        /\ HasBooleanSuccess
        /\ response.body.success = Bool(TRUE) => (Has("data") /\ ~Has("error"))
        /\ response.body.success = Bool(FALSE) => (Has("error") /\ ~Has("data"))

\* C10, amended: every body has exactly one of data and error; the 200 and
\* 500 bodies carry a boolean success, true with data and false with error;
\* the 401 and 400 bodies are {error} alone, without success.
C10_Envelope ==
    Done =>
        /\ Has("data") <=> ~Has("error")
        /\ response.status \in {200, 500} =>
               /\ HasBooleanSuccess
               /\ response.body.success = Bool(TRUE) <=> Has("data")
               /\ response.body.success = Bool(TRUE) <=> response.status = 200
        /\ response.status \in {400, 401} => DOMAIN response.body = {"error"}
        /\ response.status \in {200, 400, 401, 500}

\* a rejected upstream call answered success: false with an error and no data
C10_Witness ==
    /\ Done /\ IsRejected
    /\ HasBooleanSuccess /\ response.body.success = Bool(FALSE)
    /\ Has("error") /\ ~Has("data")


----------------------------------------------------------------------------
(* Properties of the authenticator and of the credential parsing.          *)

\* The pairs that are parsed, as written in DEMO_USERS or in the fallback.
Pairs == demoUsers(env)
Supplied(f) == attempt.credentials[f]
SignedIn == attempt.made /\ attempt.result.kind = "user"
Refused == attempt.made /\ attempt.result.kind # "user"
\* name:password, nothing else
WellFormed(pair) == Len(pair) = 2 /\ pair[1] # <<>> /\ pair[2] # <<>>
\* name:password, with or without more behind a second colon
Usable(pair) == Len(pair) >= 2 /\ pair[1] # <<>> /\ pair[2] # <<>>
Matches(pair) ==
    /\ Supplied("username") = Str(Trim(pair[1]))
    /\ Supplied("password") = Str(Trim(pair[2]))
\* no later usable pair names the same user
IsLastFor(i) ==
    \A j \in DOMAIN Pairs :
        j > i => ~(Usable(Pairs[j]) /\ Trim(Pairs[j][1]) = Trim(Pairs[i][1]))

\* C11 as stated: a sign-in succeeds exactly when the supplied username and
\* password are those of some well-formed pair of the configuration.
C11_Original ==
    attempt.made =>
        (SignedIn <=> \E i \in DOMAIN Pairs : WellFormed(Pairs[i]) /\ Matches(Pairs[i]))

\* C11: a sign-in succeeds exactly when the supplied username and password
\* are both non-empty and equal, character for character, the trimmed name
\* and the trimmed password (the text up to a second colon) of the last
\* usable pair that names this user; every other input gets no user.
C11_ExactMatch ==
    attempt.made =>
        (SignedIn <=>
            /\ Supplied("username") # Str(<<>>)
            /\ Supplied("password") # Str(<<>>)
            /\ \E i \in DOMAIN Pairs :
                   Usable(Pairs[i]) /\ Matches(Pairs[i]) /\ IsLastFor(i))

\* A user named " A " in the configuration signs in as "A", and the
\* configuration also holds a name that differs from "A" only in case.
C11_Witness ==
    /\ SignedIn
    /\ attempt.result.id = <<"A">>
    /\ \E i \in DOMAIN Pairs : Usable(Pairs[i]) /\ Trim(Pairs[i][1]) = <<"a">>
    /\ env # Unset

\* The three ways a sign-in fails.
UnknownUser ==
    /\ attempt.made
    /\ Truthy(Supplied("username")) /\ Truthy(Supplied("password"))
    /\ \A i \in DOMAIN Pairs : Usable(Pairs[i]) => Str(Trim(Pairs[i][1])) # Supplied("username")
WrongPassword ==
    /\ attempt.made
    /\ Truthy(Supplied("password"))
    /\ \E i \in DOMAIN Pairs :
           /\ Usable(Pairs[i]) /\ IsLastFor(i)
           /\ Str(Trim(Pairs[i][1])) = Supplied("username")
           /\ Str(Trim(Pairs[i][2])) # Supplied("password")
FieldMissing ==
    /\ attempt.made
    /\ ~Truthy(Supplied("username")) \/ ~Truthy(Supplied("password"))

\* C12: a sign-in that fails returns the one value null, whether the user
\* is unknown, the password is wrong or a field is missing or empty: the
\* result of a failure says nothing about its cause.
C12_FailuresAlike ==
    /\ UnknownUser \/ WrongPassword \/ FieldMissing => Refused
    /\ Refused => attempt.result = Null

\* A known user was refused for a wrong password.
C12_Witness == WrongPassword /\ Refused /\ env # Unset

\* The mapping the authenticator looks names up in.
Users == getDemoUsers(env)
HasColon(pair) == Len(pair) >= 2
Entry(pair) ==
    /\ Trim(pair[1]) \in DOMAIN Users
    /\ Users[Trim(pair[1])] = Trim(pair[2])

\* C13 as stated: every pair with a colon has its entry, trimmed name to
\* trimmed password, in the mapping, and the mapping holds nothing else.
C13_Original ==
    /\ \A i \in DOMAIN Pairs : HasColon(Pairs[i]) => Entry(Pairs[i])
    /\ DOMAIN Users = {Trim(Pairs[i][1]) : i \in {j \in DOMAIN Pairs : HasColon(Pairs[j])}}

\* C13: the mapping holds one entry for each name carried by a pair that
\* has a non-empty text on both sides of its first colon; the entry maps the
\* trimmed name to the trimmed text between the first colon and the second
\* (or the end) of the last such pair with that name. A pair without a colon,
\* or with nothing on one side of it, contributes nothing and changes no
\* other entry.
C13_ParsedMapping ==
    /\ \A i \in DOMAIN Pairs : Usable(Pairs[i]) /\ IsLastFor(i) => Entry(Pairs[i])
    /\ DOMAIN Users = {Trim(Pairs[i][1]) : i \in {j \in DOMAIN Pairs : Usable(Pairs[j])}}

\* A pair without a colon stands before " A :..."; the user signs in as "A".
C13_Witness ==
    /\ SignedIn
    /\ Len(Pairs) = 2
    /\ ~HasColon(Pairs[1])
    /\ Usable(Pairs[2]) /\ Pairs[2][1] = <<" ", "A", " ">>
    /\ Supplied("username") = Str(<<"A">>)

\* admin -> admin123 and nothing else
FallbackOnly == DOMAIN Users = {admin} /\ Users[admin] = admin123

\* C14 as stated: the fallback pair is the mapping when DEMO_USERS is not
\* set, and is not in the mapping when DEMO_USERS is set.
C14_Original ==
    /\ env = Unset => FallbackOnly
    /\ env # Unset => admin \notin DOMAIN Users

\* C14: the mapping is exactly admin -> admin123 when DEMO_USERS is not set
\* or is the empty string; when it is a non-empty string the fallback pair is
\* not added, also when the string holds no usable pair.
C14_Fallback ==
    /\ env = Unset \/ env = EmptyString => FallbackOnly
    /\ env # Unset /\ env # EmptyString => admin \notin DOMAIN Users

\* With DEMO_USERS not set, admin signed in with admin123.
C14_Witness ==
    /\ env = Unset
    /\ SignedIn
    /\ Supplied("username") = Str(admin) /\ Supplied("password") = Str(admin123)

\* C15 as stated: a sign-in has the outcome it has against the mapping
\* parsed from DEMO_USERS as it was when the process started.
C15_ResolvedOnce ==
    attempt.made => attempt.result = authorize(bootEnv, attempt.credentials)

----------------------------------------------------------------------------
(* Properties of the agent handler over time.                              *)

\* the agent call was ended by the adapter's timeout
TimedOut == IsRejected /\ upstream.error = TimeoutError
InFlight == pc \in {"session", "json", "agent"}

C17_NoRetry ==
    [][/\ Len(calls') <= 1
       /\ calls' # calls => (pc = "json" /\ pc' = "agent")
       /\ (upstream'.kind = "rejected" /\ upstream.kind # "rejected")
              => (calls' = calls /\ pc' = "done" /\ response'.status = 500)]_vars

\* The one call failed and the failure was answered.
C17_Witness ==
    /\ Done /\ IsRejected
    /\ upstream.error = ObjectOf(<<>>)
    /\ Len(calls) = 1
    /\ response.status = 500

\* the body and its prompt pass the checks of the handler
ValidInput ==
    /\ request.body.kind = "object"
    /\ Truthy(request.body.prompt)
    /\ ~PromptMissingOrShort

\* C18: a request moves session check -> validation -> dispatch -> done and
\* never back; the response is written in the step that reaches done and in
\* no other; the call is made only with a session and after validation; and
\* a request without a session is answered 401 also when its body is invalid.
C18_StateMachine ==
    /\ [][/\ <<pc, pc'>> \in {<<"idle", "session">>, <<"session", "json">>,
                              <<"session", "done">>, <<"json", "agent">>,
                              <<"json", "done">>, <<"agent", "done">>}
          /\ (response' # response) <=> (pc' = "done")
          /\ pc' = "done" => response' # NoResponse
          /\ pc' = "agent" =>
                 /\ pc = "json"
                 /\ request.session = ValidSession
                 /\ ValidInput
                 /\ Len(calls') = 1]_vars
    /\ [](Done /\ request.session = NoSession => response.status = 401)
    /\ [](~Done => response = NoResponse)

\* A request without a session and without a prompt was answered 401.
C18_Witness ==
    /\ Done
    /\ request.session = NoSession
    /\ request.body.kind = "object" /\ ~Truthy(request.body.prompt)
    /\ response.status = 401
    /\ calls = <<>>

----------------------------------------------------------------------------
(* Properties of the Credential Store at run time.                         *)

Answered(op) == reply.op = op
\* this step is a request of the given kind reaching the server
Request(op) == reply' # reply /\ reply'.op = op

C20_AddConflict ==
    [][Request("POST") /\ reply'.caller = admin =>
          IF reply'.username \in DOMAIN store
          THEN /\ reply'.status = 409
               /\ store' = store
               /\ reply'.via = "page" => (message'.type = "error" /\ users' = users)
          ELSE /\ reply'.status = 200
               /\ DOMAIN store' = DOMAIN store \cup {reply'.username}
               /\ store'[reply'.username] = reply'.password
               /\ \A k \in DOMAIN store : store'[k] = store[k]
               /\ reply'.via = "page" =>
                      (message'.type = "success" /\ users' = (DOMAIN store'))]_vars

\* The page asked to add a user who exists, with another password: the
\* answer is 409, the message an error and the password the old one.
C20_Witness ==
    /\ Answered("POST") /\ reply.via = "page"
    /\ reply.status = 409
    /\ message = Message("error", "User already exists")
    /\ reply.username \in DOMAIN store
    /\ store[reply.username] # reply.password

----------------------------------------------------------------------------
(* Properties of concurrent edits of the Credential Store.                 *)

\* The store after the completed requests, applied one after the other in
\* the order of their completion to the store the process started with; ok
\* says that each request got the status it gets in that sequential run.
RECURSIVE Replay(_, _)
Replay(h, st) ==
    IF h = <<>> THEN [store |-> st, ok |-> TRUE]
    ELSE LET r == apply(st, Head(h).edit)
             rest == Replay(Tail(h), r.store)
         IN  [store |-> rest.store, ok |-> rest.ok /\ r.status = Head(h).status]

\* the last completed request about this user
LastAbout(u) ==
    LET I == {i \in DOMAIN history : history[i].edit.username = u /\ history[i].status = 200}
    IN  IF I = {} THEN 0 ELSE CHOOSE i \in I : \A j \in I : j <= i

\* C21: at most one request is between its read and its write; when no
\* request is, the store is what the completed requests give when applied
\* one after the other in the order of their completion, each with the
\* status it got; and the last successful request about a user is not lost:
\* after an add the store holds that password, after a remove no entry.
C21_Serialized ==
    /\ Cardinality(writers) <= 1
    /\ writers = {} =>
           /\ Replay(history, getDemoUsers(bootEnv)).store = store
           /\ Replay(history, getDemoUsers(bootEnv)).ok
           /\ \A u \in StoreNames :
                  LastAbout(u) # 0 =>
                      IF history[LastAbout(u)].edit.op = "add"
                      THEN u \in DOMAIN store /\ store[u] = history[LastAbout(u)].edit.password
                      ELSE u \notin DOMAIN store

\* Three requests were under way together; the second one sent was
\* completed first, and two adds for the same new user ended 200 and 409.
C21_Witness ==
    /\ Len(history) = 3
    /\ history[1].id = 2
    /\ \E i, j \in 1..3 :
           /\ i < j
           /\ history[i].edit.op = "add" /\ history[j].edit.op = "add"
           /\ history[i].edit.username = history[j].edit.username
           /\ history[i].edit.password # history[j].edit.password
           /\ history[i].status = 200 /\ history[j].status = 409

----------------------------------------------------------------------------
(* Properties of agent requests under way together.                        *)

\* The response of the handler to one request by itself, given the session
\* and the body of the request, how its upstream call settled and the time
\* between its start and its end.
answer(req, up, ms) ==
    IF req.session = NoSession
    THEN NextResponse([error |-> Str("Unauthorized")], 401)
    ELSE LET v == validate(req.body)
         IN  CASE v.kind = "respond" -> v.response
               [] v.kind = "throw" -> failureResponse(v.error, ms)
               [] v.kind = "call" ->
                      IF up.kind = "resolved"
                      THEN successResponse(up.result, ms)
                      ELSE failureResponse(up.error, ms)

\* C22: whatever the interleaving, the response to a request is the one the
\* handler gives to this request by itself: it is determined by the
\* request's own session and body, its own upstream reply and the time
\* between its own start and its own end; before its end it has none.
C22_Independent ==
    \A i \in DOMAIN inflight :
        IF inflight[i].pc = "done"
        THEN inflight[i].response =
                 answer(inflight[i].request, inflight[i].upstream,
                        inflight[i].endTime - inflight[i].startTime)
        ELSE inflight[i].response = NoResponse

\* Two requests overlapped: the second started while the first was under
\* way and ended before it; both were answered 200, with different
\* durations.
C22_Witness ==
    /\ inflight[1].pc = "done" /\ inflight[2].pc = "done"
    /\ inflight[1].startTime < inflight[2].startTime
    /\ inflight[2].endTime < inflight[1].endTime
    /\ inflight[1].response.status = 200 /\ inflight[2].response.status = 200
    /\ inflight[1].response.body.data.v.duration # inflight[2].response.body.data.v.duration

\* In the run of one request the response is answer of that request.
SingleRequestAnswer ==
    Done => response = answer(request, upstream, now - startTime)

----------------------------------------------------------------------------
(* Properties of sign-ins while the store is edited.                       *)

\* C23 as stated: a sign-in succeeds exactly when the store, with the adds
\* and removes made since the process started, holds the supplied username
\* with the supplied password.
C23_StoreDecides ==
    attempt.made =>
        (SignedIn <=>
            /\ Supplied("username").t = "string" /\ Supplied("password").t = "string"
            /\ Supplied("username").v \in DOMAIN store
            /\ store[Supplied("username").v] = Supplied("password").v)

----------------------------------------------------------------------------
(* Properties of the agent handler: every request, and the urls passed on. *)

\* with a session, the handler throws before it reaches firecrawl.agent:
\* the body is not JSON, is null, or has an urls entry that is not a string
ThrowsBeforeCall ==
    /\ request.session = ValidSession
    /\ \/ request.body.kind \in {"malformed", "null"}
       \/ /\ ValidInput
          /\ Truthy(request.body.urls)
          /\ ~UrlsAreStrings(request.body.urls)

GivenUrls ==
    IF request.body.urls.t = "array" THEN request.body.urls.v ELSE <<request.body.urls>>

\* urls was given and holds an entry that is not blank
SomeNonBlank ==
    /\ Truthy(request.body.urls)
    /\ \E i \in 1..Len(GivenUrls) : ~IsBlank(GivenUrls[i].v)

\* C25: the arguments of every upstream call have a urls field exactly when
\* urls was given with an entry that is not blank; the field is then a list
\* of at least one entry, none of them blank; it is never an empty list.
C25_NoEmptyUrls ==
    \A i \in 1..Len(calls) :
        /\ "urls" \in DOMAIN calls[i].v <=> SomeNonBlank
        /\ "urls" \in DOMAIN calls[i].v =>
               /\ calls[i].v.urls.t = "array"
               /\ Len(calls[i].v.urls.v) >= 1
               /\ \A k \in 1..Len(calls[i].v.urls.v) : ~IsBlank(calls[i].v.urls.v[k].v)

\* The textarea of the dashboard held two blank lines: the page sent the
\* empty list, and the call was made without urls.
C25_Witness ==
    /\ calls # <<>>
    /\ request.body.urls = agentUrlsField(<< <<" ", " ">>, <<>> >>)
    /\ request.body.urls = List(<<>>)
    /\ "urls" \notin DOMAIN calls[1].v

\* the calls of handleSubmit that have not settled
Unsettled == {i \in 1..Len(runs) : runs[i].pc # "settled"}

\* C26: handleSubmit sets loading to true and the result to null when it
\* starts; the step in which its request settles (a response with a
\* parseable body, a rejected fetch, an unparseable body) leaves loading
\* false, the result non-null, loadingMessage empty and its message
\* interval cleared; loadingMessage is non-empty only while loading.
C26_Lifecycle ==
    /\ [](loadingMessage # "" => loading)
    /\ [][Len(runs') > Len(runs) =>
              /\ loading'
              /\ apiResult' = NoResult
              /\ loadingMessage' # ""]_vars
    /\ [][\A i \in 1..Len(runs) :
              (runs[i].pc # "settled" /\ runs'[i].pc = "settled") =>
                  /\ ~loading'
                  /\ apiResult' # NoResult
                  /\ loadingMessage' = ""
                  /\ ~runs'[i].messageInterval]_vars

\* A request whose body was not JSON has settled after its message had
\* rotated: the result is the failure built in the catch block.
C26_Witness ==
    /\ Len(runs) = 1
    /\ runs[1].pc = "settled"
    /\ apiResult = caught(ErrorOf("Unexpected token '<'"))
    /\ ~loading
    /\ loadingMessage = ""

\* C27: at most one tool request is in flight: the submit controls are
\* disabled while loading, no handleSubmit starts before the previous one
\* has settled, and the result is set by the most recently started call
\* alone, to the body of its response when that is JSON.
C27_OneInFlight ==
    /\ [](Cardinality(Unsettled) <= 1)
    /\ [](loading <=> Unsettled # {})
    /\ [](loading => \A fieldEmpty \in BOOLEAN : disabled(loading, fieldEmpty))
    /\ [](runs # <<>> => resultOf = Len(runs))
    /\ [][Len(runs') > Len(runs) => Unsettled = {}]_vars
    /\ [][(apiResult' # apiResult /\ apiResult' # NoResult) =>
              /\ runs[Len(runs)].pc # "settled"
              /\ runs'[Len(runs)].pc = "settled"
              /\ runs[Len(runs)].body \notin {NoResult, NotJson} =>
                     apiResult' = runs[Len(runs)].body]_vars

\* Two requests have run one after the other, and the second was answered
\* without a session: the result is the second one's answer.
C27_Witness ==
    /\ Len(runs) = 2
    /\ runs[1].tool = "agent"
    /\ runs[2].tool = "map"
    /\ runs[2].pc = "settled"
    /\ resultOf = 2
    /\ apiResult = Obj([error |-> Str("Unauthorized")])

byShape(data) ==
    IF Truthy(Prop(data, "output")) THEN Prop(data, "output").v
    ELSE IF Truthy(Prop(data, "markdown")) THEN Prop(data, "markdown").v
    ELSE IF Prop(data, "data").t = "array"
    THEN Join([i \in 1..Len(Prop(data, "data").v) |->
                   pageBlock(Prop(data, "data").v[i], i)], "\n\n---\n\n")
    ELSE IF Prop(data, "links").t = "array"
    THEN "## Gefundene URLs\n\n" \o
         Join([i \in 1..Len(Prop(data, "links").v) |->
                   linkLineByUrl(Prop(data, "links").v[i])], "\n")
    ELSE Fence \o "json\n" \o Stringify(data, "") \o "\n" \o Fence

\* the result is a map result: of the four shapes only links, an array
LinksShown ==
    LET data == Prop(apiResult, "data")
    IN  /\ data.t = "object"
        /\ ~Truthy(Prop(data, "output"))
        /\ ~Truthy(Prop(data, "markdown"))
        /\ Prop(data, "data").t # "array"
        /\ Prop(data, "links").t = "array"

ObjectLinks ==
    \E i \in 1..Len(Prop(Prop(apiResult, "data"), "links").v) :
        Prop(Prop(apiResult, "data"), "links").v[i].t = "object"

\* C29: getDisplayContent renders the first applicable shape of
\* result.data in the order output, markdown, array of pages, links, JSON
\* dump; a link that is an object is shown by its url field, or by its JSON
\* text when it has none, and a link that is a string as it is.
C29_ByShape ==
    (display.shown /\ Prop(apiResult, "data").t = "object") =>
        display.text = byShape(Prop(apiResult, "data"))

\* The same, for every result but the map results with an object among
\* their links.
C29_OrderOfShapes ==
    (display.shown /\ Prop(apiResult, "data").t = "object"
                   /\ ~(LinksShown /\ ObjectLinks)) =>
        display.text = byShape(Prop(apiResult, "data"))

\* A map result with an object among its links is shown with the text of
\* the object, not with its url.
C29_ObjectLinkShown ==
    /\ display.shown
    /\ LinksShown
    /\ Prop(Prop(apiResult, "data"), "links").v = <<Str("u"), Obj([url |-> Str("v")])>>
    /\ display.text = "## Gefundene URLs\n\n- u\n- [object Object]"

\* C30 as stated: every request the settings page sends to /api/users is
\* sent for an authenticated session whose user name is "admin".
C30_Original ==
    \A q \in issued : q.status = "authenticated" /\ q.name = admin

\* C30: the settings page sends POST and DELETE requests to /api/users only
\* for an authenticated session whose user name is "admin", the only
\* session its controls are rendered for; the list request of the mount is
\* sent whatever the session, and shows a list only to the admin.
C30_ControlsAdminOnly ==
    /\ \A q \in issued :
           q.op \in {"POST", "DELETE"} => (q.status = "authenticated" /\ q.name = admin)
    /\ reply.via = "page" => reply.caller = admin
    /\ users # {} => sessionUser = admin
    /\ (ENABLED handleAddUser \/ ENABLED handleDeleteUser) => PageShown

\* The page was mounted for the session of a, while useSession had not
\* answered: the list was requested and nothing is shown.
C30_Witness ==
    /\ sessionUser = <<"a">>
    /\ [op |-> "GET", status |-> "loading", name |-> <<"a">>] \in issued
    /\ users = {}
    /\ sessionStatus = "authenticated"

====
